---- MODULE Spec2Model ----
(***************************************************************************)
(* lbfq: a bounded top-N selector (internal/topn) fed by a concurrent     *)
(* scan pipeline (internal/scan).                                          *)
(*                                                                         *)
(* SpecKeeper drives one topn.Keeper with arbitrary Consider calls and     *)
(* ItemsDesc drains.  Slices are 0-based in the Go code; the operators     *)
(* below take the Go indices and read the TLA+ sequence at index + 1.      *)
(*                                                                         *)
(* SpecScan runs scan.Scan on a directory tree: the WalkDir goroutine, the *)
(* workers, the closer goroutine and the caller ranging over the returned  *)
(* channel.  SpecScanFair is SpecScan under fair scheduling.               *)
(***************************************************************************)
EXTENDS Integers, Sequences, FiniteSets, TLC

\* ---- bounds of the Keeper model ----
MaxN == 3
MaxSize == 3
MaxOffers == 4
MaxDrains == 2

VARIABLES
  kN,        \* Keeper.N
  kh,        \* *Keeper.h, the minHeap slice
  offered,   \* every Item passed to Consider, in call order
  evicted,   \* every Item removed from the heap by Consider, in order,
             \* each with the offered Item whose Consider call removed it
  lastOp,    \* what the last Keeper call did
  outs,      \* the slices returned by the ItemsDesc calls, in call order
  kphase,    \* "open", "drained", or "panic" (a call raised a run-time panic)
  cfg,       \* scan.Config as Scan uses it after its set-up (lines 32-47)
  env,       \* what the set-up of Scan met: the caller's request, lookups
  rootDev,   \* rootDev of Scan
  todo,      \* WalkDir: the entries still to visit, next first
  ppc,       \* producer goroutine: "walk", "closed" (paths closed), "done"
  paths,     \* buffer of the paths channel
  pathsClosed,
  results,   \* buffer of the results channel
  resultsClosed,
  wpc,       \* per worker: "recv", "send", "done"
  wres,      \* per worker: the Result it is about to send
  wg,        \* the sync.WaitGroup counter
  closerPc,  \* closer goroutine: "wait", "done"
  cpc,       \* caller ranging over the channel: "recv", "done"
  hist       \* history: per entry, how often it was queued, taken, sent,
             \* received; how often results was closed; a send or close on
             \* a closed channel (a run-time panic)

kvars == <<kN, kh, offered, evicted, lastOp, outs, kphase>>

svars == <<cfg, env, rootDev, todo, ppc, paths, pathsClosed, results,
           resultsClosed, wpc, wres, wg, closerPc, cpc, hist>>

vars == <<kN, kh, offered, evicted, lastOp, outs, kphase,
          cfg, env, rootDev, todo, ppc, paths, pathsClosed, results,
          resultsClosed, wpc, wres, wg, closerPc, cpc, hist>>

Sizes == 1..MaxSize

\* topn.Item; Path is the arrival number, which is unique per offer
Item(s, p) == [Size |-> s, Path |-> p]

Min(a, b) == IF a < b THEN a ELSE b

\* ---- minHeap methods (sort.Interface + Push/Pop) ----

LessGt(h, i, j) == h[i + 1].Size > h[j + 1].Size

Less(h, i, j) == h[i + 1].Size < h[j + 1].Size

Swap(h, i, j) == [h EXCEPT ![i + 1] = h[j + 1], ![j + 1] = h[i + 1]]

Push(h, x) == Append(h, x)

\* minHeap.Pop: the last element and the slice without it
Pop(h) == [item |-> h[Len(h)], heap |-> SubSeq(h, 1, Len(h) - 1)]

\* ---- container/heap, as called by the Keeper ----

\* heap.up(h, j); Go's (j - 1) / 2 truncates toward zero, so the parent of
\* 0 is 0
RECURSIVE HeapUp(_, _)
HeapUp(h, j) ==
  LET i == IF j = 0 THEN 0 ELSE (j - 1) \div 2
  IN  IF i = j \/ ~Less(h, j, i) THEN h ELSE HeapUp(Swap(h, i, j), i)

\* heap.down(h, i0, n)
RECURSIVE HeapDown(_, _, _)
HeapDown(h, i, n) ==
  LET j1 == 2 * i + 1
      j2 == j1 + 1
      j  == IF j2 < n /\ Less(h, j2, j1) THEN j2 ELSE j1
  IN  IF j1 >= n THEN h
      ELSE IF ~Less(h, j, i) THEN h
      ELSE HeapDown(Swap(h, i, j), j, n)

\* heap.Push(h, x): h.Push(x); up(h, h.Len()-1)
HeapPush(h, x) == HeapUp(Push(h, x), Len(h))

\* heap.Pop(h): n := h.Len()-1; h.Swap(0, n); down(h, 0, n); return h.Pop()
HeapPop(h) ==
  LET n == Len(h) - 1
  IN  Pop(HeapDown(Swap(h, 0, n), 0, n))

\* ---- Keeper ----

\* NewKeeper(n): an empty heap (heap.Init of an empty slice does nothing)
NewKeeper(n) == [N |-> n, h |-> <<>>]

\* the guard of the first branch of Consider
HasRoomLe(n, h) == Len(h) <= n

HasRoom(n, h) == Len(h) < n

\* the replacement test of Consider, reading (*(k.h))[0]
BeatsMinGe(h, it) == h[1].Size <= it.Size

BeatsMin(h, it) == h[1].Size < it.Size

\* the outcome of Consider(it) on a Keeper (n, h):
\*   "push"    the item was pushed, nothing evicted
\*   "replace" the minimum was popped and the item pushed
\*   "reject"  the heap is left alone
\*   "panic"   (*(k.h))[0] indexes an empty slice: index out of range
ConsiderOutcome(n, h, it) ==
  IF HasRoom(n, h) THEN "push"
  ELSE IF Len(h) = 0 THEN "panic"
  ELSE IF BeatsMin(h, it) THEN "replace"
  ELSE "reject"

ConsiderHeap(n, h, it) ==
  LET o == ConsiderOutcome(n, h, it)
  IN  IF o = "push" THEN HeapPush(h, it)
      ELSE IF o = "replace" THEN HeapPush(HeapPop(h).heap, it)
      ELSE h

Consider ==
  /\ kphase = "open"
  /\ Len(offered) < MaxOffers
  /\ \E s \in Sizes :
       LET it == Item(s, Len(offered) + 1)
           o  == ConsiderOutcome(kN, kh, it)
       IN  /\ offered' = Append(offered, it)
           /\ kh' = ConsiderHeap(kN, kh, it)
           /\ evicted' = IF o = "replace"
                         THEN Append(evicted, [item |-> HeapPop(kh).item, by |-> it])
                         ELSE evicted
           /\ lastOp' = o
           /\ kphase' = IF o = "panic" THEN "panic" ELSE kphase
  /\ UNCHANGED <<kN, outs>>
  /\ UNCHANGED svars

\* the first loop of ItemsDesc: out[i] = heap.Pop(k.h) for i = len-1 .. 0;
\* yields the filled slice and what is left of the heap
RECURSIVE FillFromEndSkipFirst(_, _, _)
FillFromEndSkipFirst(h, out, i) ==
  IF i < 1 THEN [out |-> out, heap |-> h]
  ELSE LET p == HeapPop(h)
       IN  FillFromEndSkipFirst(p.heap, [out EXCEPT ![i + 1] = p.item], i - 1)

RECURSIVE FillFromEnd(_, _, _)
FillFromEnd(h, out, i) ==
  IF i < 0 THEN [out |-> out, heap |-> h]
  ELSE LET p == HeapPop(h)
       IN  FillFromEnd(p.heap, [out EXCEPT ![i + 1] = p.item], i - 1)

\* the second loop of ItemsDesc: swap out[i], out[j] while i < j
RECURSIVE ReverseLoop(_, _, _)
ReverseLoop(out, i, j) ==
  IF i < j THEN ReverseLoop(Swap(out, i, j), i + 1, j - 1) ELSE out

\* the zero Item that make([]Item, n) fills the slice with
NoItem == Item(0, 0)

\* ItemsDesc on a heap h: the returned slice and the heap afterwards
ItemsDescResult(h) ==
  LET filled == FillFromEnd(h, [i \in 1..Len(h) |-> NoItem], Len(h) - 1)
  IN  [out |-> ReverseLoop(filled.out, 0, Len(filled.out) - 1),
       heap |-> filled.heap]

ItemsDesc ==
  /\ kphase \in {"open", "drained"}
  /\ Len(outs) < MaxDrains
  /\ outs' = Append(outs, ItemsDescResult(kh).out)
  /\ kh' = ItemsDescResult(kh).heap
  /\ lastOp' = "drain"
  /\ kphase' = "drained"
  /\ UNCHANGED <<kN, offered, evicted>>
  /\ UNCHANGED svars

\* ==== scan.Scan ====

\* ---- bounds of the Scan model ----
\* buffer sizes of the two channels, scaled down from the 4096 of
\* scan.go:36-37 so that full buffers are reached
PathsCap == 2
ResultsCap == 2

\* st_blocks is counted in 512-byte units
BlockUnit == 512

\* the clamp of autoWorkers
MinAutoWorkers == 4
MaxAutoWorkers == 64

\* ---- the directory tree ----
\* A path is a sequence of characters.  An entry has: its parent and name;
\* dtype, the type WalkDir's DirEntry reports ("dir", "file", "symlink",
\* "other"); readdir, whether os.ReadDir of it succeeds; wlstat and dev, the
\* outcome of the callback's syscall.Lstat and the device it reports; and
\* stat, the outcome of the worker's later os.Lstat (ok, kind, size in bytes,
\* blocks allocated), which may differ from what the walk saw.

Entry(par, nm, dt, rd, wl, dv, sok, sk, sz, bl) ==
  [parent |-> par, name |-> nm, dtype |-> dt, readdir |-> rd,
   wlstat |-> wl, dev |-> dv,
   stat |-> [ok |-> sok, kind |-> sk, size |-> sz, blocks |-> bl]]

MainTree ==
  << Entry(0, <<"/">>, "dir",     TRUE,  TRUE,  0, TRUE,  "dir",     0,    0),
     Entry(1, <<"k">>, "dir",     TRUE,  TRUE,  0, TRUE,  "dir",     0,    0),
     Entry(2, <<"a">>, "file",    TRUE,  TRUE,  0, TRUE,  "file",    2000, 4),
     Entry(2, <<"b">>, "file",    TRUE,  TRUE,  0, TRUE,  "file",    10,   1),
     Entry(2, <<"c">>, "file",    TRUE,  TRUE,  0, TRUE,  "file",    2000, 4),
     Entry(2, <<"l">>, "symlink", TRUE,  TRUE,  0, TRUE,  "symlink", 2000, 4),
     Entry(2, <<"s">>, "file",    TRUE,  TRUE,  0, TRUE,  "file",    3000, 0),
     Entry(2, <<"u">>, "dir",     FALSE, TRUE,  0, TRUE,  "dir",     0,    0),
     Entry(8, <<"a">>, "file",    TRUE,  TRUE,  0, TRUE,  "file",    2000, 4),
     Entry(2, <<"v">>, "file",    TRUE,  TRUE,  0, FALSE, "file",    2000, 4),
     Entry(1, <<"m">>, "dir",     TRUE,  TRUE,  1, TRUE,  "dir",     0,    0),
     Entry(11, <<"a">>, "file",   TRUE,  TRUE,  1, TRUE,  "file",    2000, 4),
     Entry(1, <<"o">>, "file",    TRUE,  FALSE, 1, TRUE,  "file",    2000, 4),
     Entry(1, <<"r">>, "dir",     TRUE,  TRUE,  0, TRUE,  "dir",     0,    0),
     Entry(14, <<"a">>, "file",   TRUE,  TRUE,  0, TRUE,  "file",    2000, 4),
     Entry(1, <<"r", "t">>, "file", TRUE, TRUE, 0, TRUE,  "file",    2000, 4),
     Entry(1, <<"x">>, "dir",     TRUE,  TRUE,  0, TRUE,  "dir",     0,    0),
     Entry(17, <<"a">>, "file",   TRUE,  TRUE,  0, TRUE,  "file",    2000, 4) >>

\* a second, small tree: a regular file, a symlink, a FIFO, and a file that
\* is replaced by a symlink after the walk saw it (the re-stat finds the
\* link, whose size is the length of its target)
RaceTree ==
  << Entry(0, <<"/">>, "dir",     TRUE,  TRUE,  0, TRUE,  "dir",     0,    0),
     Entry(1, <<"a">>, "file",    TRUE,  TRUE,  0, TRUE,  "file",    2000, 4),
     Entry(1, <<"l">>, "symlink", TRUE,  TRUE,  0, TRUE,  "symlink", 10,   0),
     Entry(1, <<"m">>, "other",   TRUE,  TRUE,  0, TRUE,  "other",   0,    0),
     Entry(1, <<"t">>, "file",    TRUE,  TRUE,  0, TRUE,  "symlink", 10,   0) >>

TreeNames == {"main", "race"}

TreeOf(tn) == IF tn = "main" THEN MainTree ELSE RaceTree

\* the tree the run walks
Tree == TreeOf(env.tree)

Nodes == 1..Len(Tree)

Root == 1

\* Config.Skips and Config.ExcludeGlobs of the run
Skips == << <<"/", "r">> >>

ExcludeGlobs == << <<>>, <<"/", "x">>, <<"/", "*", "/", "c">> >>

\* filepath.Join(path, name) as WalkDir builds the path of a child
Join(path, nm) ==
  IF path = <<"/">> THEN path \o nm ELSE path \o <<"/">> \o nm

\* the path of entry n of tree t
RECURSIVE PathIn(_, _)
PathIn(t, n) == IF n = Root THEN t[n].name
                ELSE Join(PathIn(t, t[n].parent), t[n].name)

PathOf(n) == PathIn(Tree, n)

\* lexical order of two names, as os.ReadDir sorts the entries
RECURSIVE NameLess(_, _)
NameLess(a, b) ==
  IF a = <<>> THEN b # <<>>
  ELSE IF b = <<>> THEN FALSE
  ELSE IF Head(a) = Head(b) THEN NameLess(Tail(a), Tail(b))
  ELSE \* the characters used are ordered as in ASCII
       LET ord == [c \in {"/", "a", "b", "c", "k", "l", "m", "o", "r", "s",
                          "t", "u", "v", "x"} |->
                     CASE c = "/" -> 0 [] c = "a" -> 1 [] c = "b" -> 2
                       [] c = "c" -> 3 [] c = "k" -> 4 [] c = "l" -> 5
                       [] c = "m" -> 6 [] c = "o" -> 7 [] c = "r" -> 8
                       [] c = "s" -> 9 [] c = "t" -> 10 [] c = "u" -> 11
                       [] c = "v" -> 12 [] c = "x" -> 13]
       IN  ord[Head(a)] < ord[Head(b)]

ChildrenOf(n) == {c \in Nodes : Tree[c].parent = n}

\* os.ReadDir(n): the children sorted by name
RECURSIVE SortByName(_)
SortByName(S) ==
  IF S = {} THEN <<>>
  ELSE LET m == CHOOSE c \in S :
                  \A d \in S \ {c} : NameLess(Tree[c].name, Tree[d].name)
       IN  <<m>> \o SortByName(S \ {m})

ReadDir(n) == SortByName(ChildrenOf(n))

\* d.IsDir() of the DirEntry WalkDir hands to the callback
IsDir(n) == Tree[n].dtype = "dir"

\* d.Type()&os.ModeSymlink != 0
IsSymlink(n) == Tree[n].dtype = "symlink"

\* ---- helpers of Scan ----

\* strings.HasPrefix(s, p)
StrHasPrefix(s, p) == Len(p) <= Len(s) /\ SubSeq(s, 1, Len(p)) = p

hasPrefix(path, prefixes) ==
  \E i \in 1..Len(prefixes) : StrHasPrefix(path, prefixes[i])

\* filepath.Match for patterns of literal characters and '*'; '*' matches
\* any run of characters other than the separator
RECURSIVE Match(_, _)
Match(g, p) ==
  IF g = <<>> THEN p = <<>>
  ELSE IF Head(g) = "*"
       THEN \E k \in 0..Len(p) :
              /\ \A i \in 1..k : p[i] # "/"
              /\ Match(Tail(g), SubSeq(p, k + 1, Len(p)))
       ELSE p # <<>> /\ Head(p) = Head(g) /\ Match(Tail(g), Tail(p))

\* the paths WalkDir produces are already clean, filepath.Clean leaves them
matchAnyGlob(path, globs) ==
  /\ Len(globs) # 0
  /\ \E i \in 1..Len(globs) : globs[i] # <<>> /\ Match(globs[i], path)

Clamp(n, lo, hi) == IF n < lo THEN lo ELSE IF n > hi THEN hi ELSE n

autoWorkers(ncpu) ==
  Clamp(2 * (IF ncpu < 1 THEN 1 ELSE ncpu), MinAutoWorkers, MaxAutoWorkers)

fileBytes(info, apparent) ==
  IF apparent THEN info.size ELSE info.blocks * BlockUnit

\* ---- the WalkDir callback ----
\* what the callback does for entry n when called with err == nil:
\* "send" (paths <- path; return nil), "nil" (return nil) or "skipdir"
PruneResultNil(n) == "nil"

PruneResult(n) == IF IsDir(n) THEN "skipdir" ELSE "nil"

Callback(n, c, rdev) ==
  IF hasPrefix(PathOf(n), Skips) THEN PruneResult(n)
  ELSE IF matchAnyGlob(PathOf(n), ExcludeGlobs) THEN PruneResult(n)
  ELSE IF c.XDev /\ Tree[n].wlstat /\ Tree[n].dev # rdev THEN PruneResult(n)
  ELSE IF IsSymlink(n) THEN PruneResult(n)
  ELSE "send"

\* drop the leading entries of a work list that are children of par
RECURSIVE DropSiblings(_, _)
DropSiblings(list, par) ==
  IF list # <<>> /\ Tree[Head(list)].parent = par
  THEN DropSiblings(Tail(list), par)
  ELSE list

\* the work list after entry n was visited with callback outcome o
\* (filepath.walkDir): a directory that was not skipped is read and its
\* entries come next; a failed ReadDir calls the callback again with the
\* error, which returns nil, and no entry is visited; SkipDir returned for a
\* non-directory skips the rest of its directory
AfterVisit(list, n, o) ==
  IF o = "skipdir"
  THEN IF IsDir(n) THEN Tail(list)
       ELSE DropSiblings(Tail(list), Tree[n].parent)
  ELSE IF IsDir(n) /\ Tree[n].readdir THEN ReadDir(n) \o Tail(list)
  ELSE Tail(list)

Bump(f, n) == [f EXCEPT ![n] = @ + 1]

\* the producer visits the next entry; a send blocks while paths is full
Walk ==
  /\ ppc = "walk"
  /\ todo # <<>>
  /\ LET n == Head(todo)
         o == Callback(n, cfg, rootDev)
     IN  IF n = Root /\ ~env.rootLstatOk
         THEN \* os.Lstat(root) failed: the callback gets the error and
              \* returns nil, nothing is walked
              /\ todo' = <<>>
              /\ UNCHANGED <<paths, hist>>
         ELSE /\ todo' = AfterVisit(todo, n, o)
              /\ IF o = "send"
                 THEN /\ Len(paths) < PathsCap
                      /\ paths' = Append(paths, n)
                      /\ hist' = [hist EXCEPT !.queued = Bump(@, n),
                                    !.panic = @ \/ pathsClosed]
                 ELSE UNCHANGED <<paths, hist>>
  /\ UNCHANGED <<cfg, env, rootDev, ppc, pathsClosed, results, resultsClosed,
                 wpc, wres, wg, closerPc, cpc>>
  /\ UNCHANGED kvars

ClosePathsForgotten ==
  /\ ppc = "walk"
  /\ todo = <<>>
  /\ ppc' = "closed"
  /\ UNCHANGED <<cfg, env, rootDev, todo, paths, pathsClosed, results,
                 resultsClosed, wpc, wres, wg, closerPc, cpc, hist>>
  /\ UNCHANGED kvars

\* close(paths) once WalkDir has returned
ClosePaths ==
  /\ ppc = "walk"
  /\ todo = <<>>
  /\ ppc' = "closed"
  /\ pathsClosed' = TRUE
  /\ hist' = [hist EXCEPT !.panic = @ \/ pathsClosed]
  /\ UNCHANGED <<cfg, env, rootDev, todo, paths, results, resultsClosed,
                 wpc, wres, wg, closerPc, cpc>>
  /\ UNCHANGED kvars

\* the deferred wg.Done() of the producer
ProducerDone ==
  /\ ppc = "closed"
  /\ ppc' = "done"
  /\ wg' = wg - 1
  /\ UNCHANGED <<cfg, env, rootDev, todo, paths, pathsClosed, results,
                 resultsClosed, wpc, wres, closerPc, cpc, hist>>
  /\ UNCHANGED kvars

\* ---- the workers ----
Workers == 1..cfg.Workers

\* what a worker does with a path it received: os.Lstat, the directory
\* test, fileBytes and the MinSize test; "send" with the Result, or "drop"
WorkerDecisionNoMin(n, c) ==
  LET info == Tree[n].stat
      sz   == fileBytes(info, c.Apparent)
  IN  IF ~info.ok \/ info.kind = "dir" THEN [do |-> "drop"]
      ELSE [do |-> "send", res |-> [Size |-> sz, Path |-> n]]

WorkerDecisionNoDirTest(n, c) ==
  LET info == Tree[n].stat
      sz   == fileBytes(info, c.Apparent)
  IN  IF ~info.ok THEN [do |-> "drop"]
      ELSE IF sz >= c.MinSize
           THEN [do |-> "send", res |-> [Size |-> sz, Path |-> n]]
           ELSE [do |-> "drop"]

WorkerDecision(n, c) ==
  LET info == Tree[n].stat
      sz   == fileBytes(info, c.Apparent)
  IN  IF ~info.ok \/ info.kind = "dir" THEN [do |-> "drop"]
      ELSE IF sz >= c.MinSize
           THEN [do |-> "send", res |-> [Size |-> sz, Path |-> n]]
           ELSE [do |-> "drop"]

NoResult == [Size |-> 0, Path |-> 0]

\* one iteration start of `for path := range paths`: receive and examine
WorkerTake(w) ==
  /\ wpc[w] = "recv"
  /\ paths # <<>>
  /\ LET n == Head(paths)
         d == WorkerDecision(n, cfg)
     IN  /\ paths' = Tail(paths)
         /\ hist' = [hist EXCEPT !.taken = Bump(@, n)]
         /\ IF d.do = "send"
            THEN wpc' = [wpc EXCEPT ![w] = "send"] /\ wres' = [wres EXCEPT ![w] = d.res]
            ELSE UNCHANGED <<wpc, wres>>
  /\ UNCHANGED <<cfg, env, rootDev, todo, ppc, pathsClosed, results,
                 resultsClosed, wg, closerPc, cpc>>
  /\ UNCHANGED kvars

WorkerSendNonBlocking(w) ==
  /\ wpc[w] = "send"
  /\ results' = IF resultsClosed \/ Len(results) >= ResultsCap THEN results
                ELSE Append(results, wres[w])
  /\ hist' = [hist EXCEPT
                !.sent = IF Len(results) >= ResultsCap THEN @
                         ELSE Bump(@, wres[w].Path),
                !.panic = @ \/ resultsClosed]
  /\ wpc' = [wpc EXCEPT ![w] = "recv"]
  /\ wres' = [wres EXCEPT ![w] = NoResult]
  /\ UNCHANGED <<cfg, env, rootDev, todo, ppc, paths, pathsClosed,
                 resultsClosed, wg, closerPc, cpc>>
  /\ UNCHANGED kvars

WorkerSendUnbounded(w) ==
  /\ wpc[w] = "send"
  /\ results' = IF resultsClosed THEN results ELSE Append(results, wres[w])
  /\ hist' = [hist EXCEPT !.sent = Bump(@, wres[w].Path),
                !.panic = @ \/ resultsClosed]
  /\ wpc' = [wpc EXCEPT ![w] = "recv"]
  /\ wres' = [wres EXCEPT ![w] = NoResult]
  /\ UNCHANGED <<cfg, env, rootDev, todo, ppc, paths, pathsClosed,
                 resultsClosed, wg, closerPc, cpc>>
  /\ UNCHANGED kvars

\* results <- Result{...}; blocks while results is full
WorkerSend(w) ==
  /\ wpc[w] = "send"
  /\ resultsClosed \/ Len(results) < ResultsCap
  /\ results' = IF resultsClosed THEN results ELSE Append(results, wres[w])
  /\ hist' = [hist EXCEPT !.sent = Bump(@, wres[w].Path),
                !.panic = @ \/ resultsClosed]
  /\ wpc' = [wpc EXCEPT ![w] = "recv"]
  /\ wres' = [wres EXCEPT ![w] = NoResult]
  /\ UNCHANGED <<cfg, env, rootDev, todo, ppc, paths, pathsClosed,
                 resultsClosed, wg, closerPc, cpc>>
  /\ UNCHANGED kvars

\* the range loop ends when paths is closed and drained; deferred wg.Done()
WorkerExit(w) ==
  /\ wpc[w] = "recv"
  /\ paths = <<>>
  /\ pathsClosed
  /\ wpc' = [wpc EXCEPT ![w] = "done"]
  /\ wg' = wg - 1
  /\ UNCHANGED <<cfg, env, rootDev, todo, ppc, paths, pathsClosed, results,
                 resultsClosed, wres, closerPc, cpc, hist>>
  /\ UNCHANGED kvars

CloserAfterProducer ==
  /\ closerPc = "wait"
  /\ ppc = "done"
  /\ closerPc' = "done"
  /\ resultsClosed' = TRUE
  /\ hist' = [hist EXCEPT !.closes = @ + 1, !.panic = @ \/ resultsClosed]
  /\ UNCHANGED <<cfg, env, rootDev, todo, ppc, paths, pathsClosed, results,
                 wpc, wres, wg, cpc>>
  /\ UNCHANGED kvars

\* the closer goroutine: wg.Wait(); close(results)
Closer ==
  /\ closerPc = "wait"
  /\ wg = 0
  /\ closerPc' = "done"
  /\ resultsClosed' = TRUE
  /\ hist' = [hist EXCEPT !.closes = @ + 1, !.panic = @ \/ resultsClosed]
  /\ UNCHANGED <<cfg, env, rootDev, todo, ppc, paths, pathsClosed, results,
                 wpc, wres, wg, cpc>>
  /\ UNCHANGED kvars

\* the caller: `for r := range scan.Scan(cfg)`
CallerRecv ==
  /\ cpc = "recv"
  /\ results # <<>>
  /\ results' = Tail(results)
  /\ hist' = [hist EXCEPT !.received = Bump(@, Head(results).Path)]
  /\ UNCHANGED <<cfg, env, rootDev, todo, ppc, paths, pathsClosed,
                 resultsClosed, wpc, wres, wg, closerPc, cpc>>
  /\ UNCHANGED kvars

CallerDone ==
  /\ cpc = "recv"
  /\ results = <<>>
  /\ resultsClosed
  /\ cpc' = "done"
  /\ UNCHANGED <<cfg, env, rootDev, todo, ppc, paths, pathsClosed, results,
                 resultsClosed, wpc, wres, wg, closerPc, hist>>
  /\ UNCHANGED kvars

\* ---- the inputs of a run ----
WorkerRequests == {-1, 0, 1, 2}

CPUCounts == {1, 2}

MinSizes == {0, 1000, 5000}

NoCount == [n \in Nodes |-> 0]

\* no Keeper call is made (the scan is run alone)
KeeperIdle ==
  /\ kN = 0
  /\ kh = <<>>
  /\ offered = <<>>
  /\ evicted = <<>>
  /\ lastOp = "new"
  /\ outs = <<>>
  /\ kphase = "open"

\* cfg.XDev after Scan's setup: a failed devOf(root) turns confinement off
SetupXDevKeep(xdev, devok) == xdev
SetupXDev(xdev, devok) == xdev /\ devok

\* the state when Scan returns the channel: Workers auto-tuned, XDev turned
\* off if devOf(root) failed, wg counting the producer and every worker
ScanInit ==
  /\ KeeperIdle
  /\ \E wreq \in WorkerRequests, ncpu \in CPUCounts, ms \in MinSizes,
        xdev \in BOOLEAN, app \in BOOLEAN, devok \in BOOLEAN, rootok \in BOOLEAN,
        tr \in TreeNames :
       /\ cfg = [Workers  |-> IF wreq <= 0 THEN autoWorkers(ncpu) ELSE wreq,
                 MinSize  |-> ms,
                 XDev     |-> SetupXDev(xdev, devok),
                 Apparent |-> app]
       /\ env = [auto |-> wreq <= 0, reqXDev |-> xdev,
                 devOfOk |-> (xdev => devok), rootLstatOk |-> rootok,
                 tree |-> tr]
       /\ rootDev = IF xdev /\ devok THEN Tree[Root].dev ELSE 0
  /\ todo = <<Root>>
  /\ ppc = "walk"
  /\ paths = <<>>
  /\ pathsClosed = FALSE
  /\ results = <<>>
  /\ resultsClosed = FALSE
  /\ wpc = [w \in 1..cfg.Workers |-> "recv"]
  /\ wres = [w \in 1..cfg.Workers |-> NoResult]
  /\ wg = 1 + cfg.Workers
  /\ closerPc = "wait"
  /\ cpc = "recv"
  /\ hist = [queued |-> NoCount, taken |-> NoCount, sent |-> NoCount,
             received |-> NoCount, closes |-> 0, panic |-> FALSE]

ScanNext ==
  \/ Walk
  \/ ClosePaths
  \/ ProducerDone
  \/ \E w \in Workers : WorkerTake(w)
  \/ \E w \in Workers : WorkerSend(w)
  \/ \E w \in Workers : WorkerExit(w)
  \/ Closer
  \/ CallerRecv
  \/ CallerDone

\* Scan has not been called (the Keeper is driven alone)
ScanIdle ==
  /\ cfg = [Workers |-> 0, MinSize |-> 0, XDev |-> FALSE, Apparent |-> FALSE]
  /\ env = [auto |-> FALSE, reqXDev |-> FALSE, devOfOk |-> TRUE,
            rootLstatOk |-> TRUE, tree |-> "main"]
  /\ rootDev = 0
  /\ todo = <<>>
  /\ ppc = "done"
  /\ paths = <<>>
  /\ pathsClosed = FALSE
  /\ results = <<>>
  /\ resultsClosed = FALSE
  /\ wpc = <<>>
  /\ wres = <<>>
  /\ wg = 0
  /\ closerPc = "done"
  /\ cpc = "done"
  /\ hist = [queued |-> NoCount, taken |-> NoCount, sent |-> NoCount,
             received |-> NoCount, closes |-> 0, panic |-> FALSE]

KeeperInit ==
  /\ ScanIdle
  /\ kN \in 0..MaxN
  /\ kh = NewKeeper(kN).h
  /\ offered = <<>>
  /\ evicted = <<>>
  /\ lastOp = "new"
  /\ outs = <<>>
  /\ kphase = "open"

KeeperNext == Consider \/ ItemsDesc

SpecKeeper == KeeperInit /\ [][KeeperNext]_vars

SpecScan == ScanInit /\ [][ScanNext]_vars

\* every goroutine that can run is eventually run (the Go scheduler), and
\* the caller keeps receiving
ScanFairness ==
  /\ WF_vars(Walk)
  /\ WF_vars(ClosePaths)
  /\ WF_vars(ProducerDone)
  /\ WF_vars(\E w \in Workers : WorkerTake(w))
  /\ WF_vars(\E w \in Workers : WorkerSend(w))
  /\ WF_vars(\E w \in Workers : WorkerExit(w))
  /\ WF_vars(Closer)
  /\ WF_vars(CallerRecv)
  /\ WF_vars(CallerDone)

SpecScanFair == ScanInit /\ [][ScanNext]_vars /\ ScanFairness

\* ---- helpers of the Keeper properties ----

Items(h) == {h[i] : i \in 1..Len(h)}

SizesOf(h) == [i \in 1..Len(h) |-> h[i].Size]

Count(sq, s) == Cardinality({i \in 1..Len(sq) : sq[i] = s})

RemoveAt(sq, m) == SubSeq(sq, 1, m - 1) \o SubSeq(sq, m + 1, Len(sq))

\* reference: sort the sizes in descending order (selection of the maximum)
RECURSIVE SortDesc(_)
SortDesc(sq) ==
  IF sq = <<>> THEN <<>>
  ELSE LET m == CHOOSE i \in 1..Len(sq) : \A j \in 1..Len(sq) : sq[i] >= sq[j]
       IN  <<sq[m]>> \o SortDesc(RemoveAt(sq, m))

\* reference: the min(n, k) largest of the k sizes offered
TopRef(n, sq) == SubSeq(SortDesc(sq), 1, Min(n, Len(sq)))

\* the smallest Size held, computed over the whole heap
MinSizeOf(h) == CHOOSE s \in {it.Size : it \in Items(h)} :
                  \A it \in Items(h) : s <= it.Size

Retained(it) == it \in Items(kh)

\* a step that is a call of Consider, and the Item it offers
IsConsiderStep == Len(offered') = Len(offered) + 1

Incoming == offered'[Len(offered')]

\* a step that is a call of ItemsDesc, and the slice it returns
IsDrainStep == Len(outs') = Len(outs) + 1

Returned == outs'[Len(outs')]

\* C1: for capacity N >= 1, every slice ItemsDesc returns is sorted in
\* descending order of Size: out[i].Size >= out[j].Size for all i < j.
C1_DrainSortedDescending ==
  kN >= 1 =>
    \A k \in 1..Len(outs) :
      \A i, j \in 1..Len(outs[k]) :
        i < j => outs[k][i].Size >= outs[k][j].Size

\* C2: with capacity N = 0 every Consider call completes normally as a no-op
\* (no failure, nothing retained) and ItemsDesc returns an empty slice.
C2_ZeroCapacityIsNoOp ==
  kN = 0 =>
    /\ kphase # "panic"
    /\ kh = <<>>
    /\ \A k \in 1..Len(outs) : outs[k] = <<>>

\* C3: after any sequence of Consider calls (before the drain) the multiset
\* of sizes in the heap is the multiset of the min(N, k) largest sizes among
\* the k items offered, by the sort-and-take-N reference.
C3_HeapIsTopN ==
  kphase # "drained" =>
    /\ Len(kh) = Min(kN, Len(offered))
    /\ \A s \in Sizes :
         Count(SizesOf(kh), s) = Count(TopRef(kN, SizesOf(offered)), s)

C3_Witness ==
  /\ kphase = "open"
  /\ kN >= 2
  /\ Len(offered) > kN
  /\ Len(evicted) >= 1
  /\ \E i, j \in 1..Len(kh) : kh[i].Size # kh[j].Size

\* C4: selector invariant: at most N items are held, and every held item's
\* Size is >= the Size of every item evicted so far.
C4_SelectorInvariant ==
  /\ Len(kh) <= kN
  /\ \A it \in Items(kh) : \A k \in 1..Len(evicted) :
       it.Size >= evicted[k].item.Size

C4_Witness ==
  /\ Len(kh) = kN
  /\ kN >= 2
  /\ Len(evicted) >= 2

\* C5: admission rule of Consider(it): below capacity, it is retained and
\* nothing is evicted; at capacity with it.Size > the smallest retained Size,
\* exactly one item of that smallest Size is evicted and it is retained; at
\* capacity with it.Size <= the smallest retained Size, nothing changes.
C5_AdmissionRule ==
  [][IsConsiderStep =>
       /\ Len(kh) < kN =>
            /\ Items(kh') = Items(kh) \cup {Incoming}
            /\ Len(kh') = Len(kh) + 1
            /\ evicted' = evicted
       /\ (Len(kh) = kN /\ Len(kh) > 0 /\ Incoming.Size > MinSizeOf(kh)) =>
            /\ Len(evicted') = Len(evicted) + 1
            /\ SubSeq(evicted', 1, Len(evicted)) = evicted
            /\ LET e == evicted'[Len(evicted')].item
               IN  /\ e \in Items(kh)
                   /\ e.Size = MinSizeOf(kh)
                   /\ Items(kh') = (Items(kh) \ {e}) \cup {Incoming}
            /\ Len(kh') = Len(kh)
       /\ (Len(kh) = kN /\ Len(kh) > 0 /\ Incoming.Size <= MinSizeOf(kh)) =>
            /\ kh' = kh
            /\ evicted' = evicted
    ]_vars

\* all three cases have happened: a replacement just now, a rejection before
C5_Witness ==
  /\ lastOp = "replace"
  /\ kN >= 2
  /\ Len(offered) > Len(kh) + Len(evicted)

\* C6 as stated: if two offered items have equal Size and only one of them
\* is still retained, the retained one is the one that was offered first.
C6_TiesByArrivalOrder ==
  kphase = "open" =>
    \A i, j \in 1..Len(offered) :
      (i < j /\ offered[i].Size = offered[j].Size)
        => ~(Retained(offered[j]) /\ ~Retained(offered[i]))

\* C6 amended: an incoming item never displaces or outlives an equal-sized
\* earlier one by being offered: if a later item is retained and an earlier
\* one of equal Size is not, the earlier one was evicted by an item of
\* strictly larger Size that was offered after both.
C6_EqualNeverDisplaces ==
  kphase = "open" =>
    \A i, j \in 1..Len(offered) :
      (i < j /\ offered[i].Size = offered[j].Size
             /\ Retained(offered[j]) /\ ~Retained(offered[i]))
        => \E k \in 1..Len(evicted) :
             /\ evicted[k].item = offered[i]
             /\ evicted[k].by.Size > offered[i].Size
             /\ evicted[k].by.Path > offered[j].Path

\* a later equal-sized item was rejected while the earlier one stays
C6_Witness ==
  /\ kphase = "open"
  /\ lastOp = "reject"
  /\ Len(kh) = kN
  /\ offered[Len(offered)].Size = MinSizeOf(kh)
  /\ \E i \in 1..(Len(offered) - 1) :
       offered[i].Size = offered[Len(offered)].Size /\ Retained(offered[i])

\* C7: ItemsDesc is a complete, destructive drain: it returns exactly the
\* items retained at that moment (none lost or duplicated; min(N, N0) of them
\* after N0 Consider calls), leaves the Keeper with zero items, and a second
\* ItemsDesc returns an empty slice.
C7_DrainCompleteDestructive ==
  [][IsDrainStep =>
       /\ Items(Returned) = Items(kh)
       /\ Len(Returned) = Len(kh)
       /\ Cardinality(Items(Returned)) = Len(Returned)
       /\ Len(outs) = 0 => Len(Returned) = Min(kN, Len(offered))
       /\ Len(outs) >= 1 => Returned = <<>>
       /\ kh' = <<>>
    ]_vars

C7_Witness ==
  /\ Len(outs) = 2
  /\ Len(outs[1]) >= 2
  /\ Len(offered) > kN
  /\ kh = <<>>

\* ---- helpers of the Scan properties ----

AllWorkersDone == \A w \in Workers : wpc[w] = "done"

\* the traversal closed the candidate queue, every worker exited and the
\* result channel is closed
ScanFinished ==
  /\ pathsClosed
  /\ ppc = "done"
  /\ AllWorkersDone
  /\ resultsClosed

\* path is the prefix p itself or lies inside the subtree under p
UnderPrefix(path, p) == path = p \/ StrHasPrefix(path, p \o <<"/">>)

\* rule 2 with the scope of a subtree: path is a skip prefix or beneath one
InSkipScope(path) == \E i \in 1..Len(Skips) : UnderPrefix(path, Skips[i])

\* reference for the pruning rules 2-5 on one entry, read off the tree;
\* rule 2 has the scope of the subtree under a skip prefix
PrunedByRule(n) ==
  \/ InSkipScope(PathOf(n))
  \/ matchAnyGlob(PathOf(n), ExcludeGlobs)
  \/ (cfg.XDev /\ Tree[n].dev # rootDev)
  \/ Tree[n].dtype = "symlink"

\* reference: the entry is reached through readable, unpruned directories
RECURSIVE ReachedByRule(_)
ReachedByRule(n) ==
  IF n = Root THEN env.rootLstatOk
  ELSE LET par == Tree[n].parent
       IN  /\ ReachedByRule(par)
           /\ ~PrunedByRule(par)
           /\ Tree[par].dtype = "dir"
           /\ Tree[par].readdir

\* reference: a regular file that survives rules 1-5, whose re-stat succeeds
\* and whose size by the sizing rule is >= MinSize
Qualifying(n) ==
  /\ ReachedByRule(n)
  /\ ~PrunedByRule(n)
  /\ Tree[n].dtype = "file"
  /\ Tree[n].stat.ok
  /\ Tree[n].stat.kind = "file"
  /\ (IF cfg.Apparent THEN Tree[n].stat.size
      ELSE Tree[n].stat.blocks * BlockUnit) >= cfg.MinSize

\* C8: for every worker count (Workers <= 0 is auto-tuned to at least 4),
\* with a caller that keeps receiving and fair scheduling, the traversal
\* eventually closes the candidate queue, every worker exits and the result
\* channel is closed, for good: no goroutine stays blocked on a queue.
C8_ScanTerminates ==
  /\ [](env.auto => cfg.Workers >= MinAutoWorkers)
  /\ <>[](ScanFinished /\ cpc = "done")

C8_Witness ==
  /\ ScanFinished
  /\ cpc = "done"
  /\ env.auto
  /\ cfg.Workers >= 4
  /\ \E n \in Nodes : hist.received[n] = 1

\* C9: the result channel is closed exactly once, and only after the
\* traversal closed the candidate queue and every worker drained it and
\* exited; nothing is ever sent on a closed channel.
C9_CompletionBarrier ==
  /\ hist.closes <= 1
  /\ ~hist.panic
  /\ resultsClosed =>
       /\ hist.closes = 1
       /\ pathsClosed
       /\ paths = <<>>
       /\ ppc = "done"
       /\ AllWorkersDone
       /\ \A n \in Nodes : hist.taken[n] = hist.queued[n]
  /\ pathsClosed => todo = <<>>

C9_Witness ==
  /\ resultsClosed
  /\ cfg.Workers >= 2
  /\ results # <<>>
  /\ \E n \in Nodes : hist.received[n] = 1

\* C10: each candidate path queued is taken by exactly one worker, no
\* Result is emitted twice, and by the time the result channel is closed
\* every qualifying regular file has been emitted exactly once, whatever
\* other entries are unreadable.
C10_ExactlyOnce ==
  /\ \A n \in Nodes :
       /\ hist.queued[n] <= 1
       /\ hist.taken[n] <= hist.queued[n]
       /\ hist.sent[n] <= hist.taken[n]
       /\ hist.received[n] <= hist.sent[n]
  /\ resultsClosed =>
       \A n \in Nodes :
         /\ hist.taken[n] = hist.queued[n]
         /\ Qualifying(n) => hist.sent[n] = 1
  /\ cpc = "done" =>
       \A n \in Nodes : Qualifying(n) => hist.received[n] = 1

\* a run over the tree with its unreadable directory and vanished file, in
\* which several workers delivered several qualifying files
C10_Witness ==
  /\ cpc = "done"
  /\ cfg.Workers >= 2
  /\ Cardinality({n \in Nodes : Qualifying(n) /\ hist.received[n] = 1}) >= 2
  /\ \E n \in Nodes : hist.queued[n] = 1 /\ ~Tree[n].stat.ok
  /\ \E n \in Nodes : hist.queued[n] = 1 /\ ~Tree[n].readdir

\* the entry n of tree t and its ancestors up to the root
RECURSIVE LineageIn(_, _)
LineageIn(t, n) ==
  IF n = Root THEN {n} ELSE {n} \cup LineageIn(t, t[n].parent)

MatchesSkipOrGlob(path) ==
  hasPrefix(path, Skips) \/ matchAnyGlob(path, ExcludeGlobs)

\* per tree, the entries whose path matches a skip prefix or an exclude
\* glob, or that lie beneath an entry whose path does
PrunedSubtrees ==
  [tn \in TreeNames |->
     {n \in 1..Len(TreeOf(tn)) :
        \E a \in LineageIn(TreeOf(tn), n) :
          MatchesSkipOrGlob(PathIn(TreeOf(tn), a))}]

InPrunedSubtree(n) == n \in PrunedSubtrees[env.tree]

\* a worker holds a Result for entry n that it is about to send
PendingResult(n) == \E w \in Workers : wpc[w] = "send" /\ wres[w].Path = n

\* a Result for entry n was built or sent
Produced(n) == hist.sent[n] > 0 \/ PendingResult(n)

\* C11: pruned-subtree property: for every path that matches a skip prefix
\* or an exclude glob, no Result is ever produced or sent for that path or
\* for any path beneath it (nor is such a path queued).
C11_PrunedSubtree ==
  \A n \in Nodes :
    InPrunedSubtree(n) => (~Produced(n) /\ hist.queued[n] = 0)

\* the walk is over, results were delivered, and a big readable file lies
\* beneath an excluded directory without matching anything itself
C11_Witness ==
  /\ cpc = "done"
  /\ env.rootLstatOk
  /\ \E m \in Nodes : hist.received[m] = 1
  /\ \E n \in Nodes :
       /\ InPrunedSubtree(n)
       /\ ~MatchesSkipOrGlob(PathOf(n))
       /\ Tree[n].stat.ok
       /\ Tree[n].stat.kind = "file"
       /\ fileBytes(Tree[n].stat, cfg.Apparent) >= cfg.MinSize

\* C12: symlink property: no Result is ever produced for a path that is a
\* symbolic link when the worker resolves its size, or that is reached only
\* through a symbolic link, also when the entry changed after the walk's
\* check.
C12_NoSymlinkResult ==
  \A n \in Nodes :
    Produced(n) =>
      /\ Tree[n].stat.kind # "symlink"
      /\ \A a \in LineageIn(Tree, n) : Tree[a].dtype # "symlink"

\* C13: same-filesystem property: when XDev is requested and the root's device
\* is known, every Result sent names an entry on the root's device, also when
\* a per-entry device lookup of the walk failed.
C13_SameFilesystem ==
  (env.reqXDev /\ env.devOfOk) =>
    \A n \in Nodes : hist.sent[n] > 0 => Tree[n].dev = Tree[Root].dev

\* what the caller of Scan can observe: the Results it received and whether
\* the channel was closed; Scan returns nothing else
CallerObservation == [received |-> hist.received, closed |-> cpc = "done"]

\* what the caller observes after a successful scan of an empty tree
EmptyTreeObservation == [received |-> NoCount, closed |-> TRUE]

\* C14: an inaccessible root is fatal and surfaced: when the root cannot be
\* stat-ed, what the caller of Scan observes differs from what it observes
\* after a successful scan of an empty tree.
C14_RootFailureSurfaced ==
  ~env.rootLstatOk => CallerObservation # EmptyTreeObservation

\* the Size the sizing rule gives for the worker's re-stat of entry n
ResolvedSize(n) == fileBytes(Tree[n].stat, cfg.Apparent)

\* r is a Result a worker may send: its entry could be re-stat-ed, Size is
\* the sizing rule's value for that re-stat and it is at least cfg.MinSize
MeetsMinimum(r) ==
  /\ r.Path \in Nodes
  /\ Tree[r.Path].stat.ok
  /\ r.Size = ResolvedSize(r.Path)
  /\ r.Size >= cfg.MinSize

\* C15: minimum-size property: every Result held for sending or sent on the
\* result channel has Size >= cfg.MinSize with Size the sizing rule's value for
\* the worker's own re-stat; when every entry's size is below MinSize no
\* Result is ever sent or delivered.
C15_MinimumSize ==
  /\ \A i \in 1..Len(results) : MeetsMinimum(results[i])
  /\ \A w \in Workers : wpc[w] = "send" => MeetsMinimum(wres[w])
  /\ \A n \in Nodes : hist.sent[n] > 0 => ResolvedSize(n) >= cfg.MinSize
  /\ (\A n \in Nodes : ResolvedSize(n) < cfg.MinSize) =>
       (results = <<>> /\ \A n \in Nodes : hist.sent[n] = 0 /\ hist.received[n] = 0)

\* a finished scan with a positive MinSize that delivered a Result and also
\* took, and dropped, a file whose resolved size is below MinSize
C15_Witness ==
  /\ cpc = "done"
  /\ cfg.MinSize > 0
  /\ \E n \in Nodes : hist.received[n] = 1 /\ ResolvedSize(n) >= cfg.MinSize
  /\ \E n \in Nodes :
       /\ Tree[n].stat.ok /\ Tree[n].stat.kind = "file"
       /\ ResolvedSize(n) < cfg.MinSize
       /\ hist.taken[n] = 1 /\ hist.sent[n] = 0

\* XDev was requested and the device lookup on the root failed
Degraded == env.reqXDev /\ ~env.devOfOk

\* per tree, the entries the walk reaches and queues when rule 4 is off: no
\* entry of the lineage matches a skip prefix or a glob or is a symlink, and
\* every proper ancestor is a readable directory
SurvivorsWithoutXDev ==
  [tn \in TreeNames |->
     {n \in 1..Len(TreeOf(tn)) :
        /\ \A a \in LineageIn(TreeOf(tn), n) :
             /\ ~MatchesSkipOrGlob(PathIn(TreeOf(tn), a))
             /\ TreeOf(tn)[a].dtype # "symlink"
        /\ \A a \in LineageIn(TreeOf(tn), n) \ {n} :
             TreeOf(tn)[a].dtype = "dir" /\ TreeOf(tn)[a].readdir}]

\* C16: a failed device lookup on the root is degraded, not fatal: the run
\* goes on with confinement off for every entry (entries of every device
\* are queued, none is pruned by rule 4 or compared with a default rootDev),
\* nothing panics and the scan is never stuck before the caller is done.
C16_DegradedNotFatal ==
  Degraded =>
    /\ ~cfg.XDev
    /\ ~hist.panic
    /\ (pathsClosed /\ env.rootLstatOk) =>
         \A n \in Nodes :
           n \in SurvivorsWithoutXDev[env.tree] => hist.queued[n] = 1
    /\ cpc = "done" \/ ENABLED ScanNext

\* a degraded run that finished and delivered a file of another device than
\* the root's
C16_Witness ==
  /\ Degraded
  /\ cpc = "done"
  /\ ScanFinished
  /\ \E n \in Nodes :
       /\ Tree[n].dev # Tree[Root].dev
       /\ Tree[n].wlstat
       /\ hist.received[n] = 1

\* per tree, the entries the walk reaches and queues when rule 4 is in force
\* with the root's device known: as without it, less the entries with a
\* lineage member whose device lookup succeeds and differs from the root's
SurvivorsWithXDev ==
  [tn \in TreeNames |->
     {n \in SurvivorsWithoutXDev[tn] :
        \A a \in LineageIn(TreeOf(tn), n) :
          ~(TreeOf(tn)[a].wlstat /\ TreeOf(tn)[a].dev # TreeOf(tn)[Root].dev)}]

\* the entries that survive the five checks in this run
Survivors ==
  IF ~env.rootLstatOk THEN {}
  ELSE IF cfg.XDev THEN SurvivorsWithXDev[env.tree]
  ELSE SurvivorsWithoutXDev[env.tree]

\* C17 as stated: directory entries are not emitted as candidates: the
\* traversal never places an entry it visited as a directory on the
\* candidate queue.
C17_NoDirCandidates ==
  \A n \in Nodes : Tree[n].dtype = "dir" => hist.queued[n] = 0

\* C17, amended: the traversal queues every entry that survives the five
\* checks, directories and files alike, and only those; a worker discards a
\* candidate whose re-stat shows a directory, so no Result is ever built or
\* sent for a directory.
C17_DirsQueuedThenDropped ==
  /\ \A n \in Nodes : hist.queued[n] > 0 => n \in Survivors
  /\ pathsClosed => \A n \in Survivors : hist.queued[n] = 1
  /\ \A n \in Nodes : Tree[n].stat.kind = "dir" => ~Produced(n)
  /\ resultsClosed =>
       \A n \in Nodes :
         Tree[n].dtype = "dir" => hist.taken[n] = hist.queued[n] /\ hist.sent[n] = 0

\* a finished scan in which a directory below the root was queued, taken by
\* a worker and dropped, while a file was delivered
C17_Witness ==
  /\ cpc = "done"
  /\ \E n \in Nodes \ {Root} :
       /\ Tree[n].dtype = "dir" /\ Tree[n].stat.kind = "dir"
       /\ hist.queued[n] = 1 /\ hist.taken[n] = 1 /\ hist.sent[n] = 0
  /\ \E n \in Nodes : Tree[n].dtype = "file" /\ hist.received[n] = 1

\* C18: only regular files produce results: every Result built or sent names
\* an entry that is a regular file at the worker's re-stat; FIFOs, sockets,
\* device nodes and paths replaced by a symlink after the traversal are
\* discarded by the worker.
C18_OnlyRegularFiles ==
  \A n \in Nodes : Produced(n) => Tree[n].stat.kind = "file"

\* per tree, the entries that no rule other than rule 4 excludes when rule 2
\* has the scope of a subtree: no entry of the lineage is in the scope of a
\* skip prefix, matches a glob or is a symlink, and every proper ancestor is
\* a readable directory
ScopedSurvivors ==
  [tn \in TreeNames |->
     {n \in 1..Len(TreeOf(tn)) :
        /\ \A a \in LineageIn(TreeOf(tn), n) :
             /\ ~InSkipScope(PathIn(TreeOf(tn), a))
             /\ ~matchAnyGlob(PathIn(TreeOf(tn), a), ExcludeGlobs)
             /\ TreeOf(tn)[a].dtype # "symlink"
        /\ \A a \in LineageIn(TreeOf(tn), n) \ {n} :
             TreeOf(tn)[a].dtype = "dir" /\ TreeOf(tn)[a].readdir}]

\* per tree, the entries whose whole lineage is on the root's device
OnRootDevice ==
  [tn \in TreeNames |->
     {n \in 1..Len(TreeOf(tn)) :
        \A a \in LineageIn(TreeOf(tn), n) :
          TreeOf(tn)[a].dev = TreeOf(tn)[Root].dev}]

\* C19: skip-prefix scope: rule 2 excludes an entry only if its path is a
\* skip prefix or lies in the subtree under one: once the walk is over, every
\* entry outside the scope of the skip prefixes that no other rule excludes
\* was queued, a sibling whose name merely begins like a skip prefix
\* included, and no pruned file made the walk skip its siblings.
C19_SkipPrefixScope ==
  (pathsClosed /\ env.rootLstatOk) =>
    \A n \in ScopedSurvivors[env.tree] :
      (cfg.XDev => n \in OnRootDevice[env.tree]) => hist.queued[n] = 1

\* the heap of a fresh Keeper of capacity n after Consider was called with
\* the first k items of sq, the i-th offered being sq[ord[i]]
RECURSIVE HeapAfter(_, _, _, _)
HeapAfter(n, sq, ord, k) ==
  IF k = 0 THEN NewKeeper(n).h
  ELSE ConsiderHeap(n, HeapAfter(n, sq, ord, k - 1), Item(sq[ord[k]].Size, k))

\* the sizes ItemsDesc returns after the items of sq arrived in the order ord
RankingOf(n, sq, ord) ==
  SizesOf(ItemsDescResult(HeapAfter(n, sq, ord, Len(sq))).out)

\* C20: order-independence of the final ranking: whatever order the same
\* multiset of Results arrives in, a Keeper of the same capacity fed through
\* Consider returns the same sequence of sizes from ItemsDesc.  The first
\* drain of the run is compared with the drain after every other arrival
\* order of the items offered.
C20_OrderIndependent ==
  (Len(outs) >= 1 /\ kphase = "drained") =>
    \A ord \in Permutations(1..Len(offered)) :
      RankingOf(kN, offered, ord) = SizesOf(outs[1])

\* a drained Keeper of capacity >= 2 that was offered more items than it
\* holds, in an order neither ascending nor descending, and evicted one
C20_Witness ==
  /\ Len(outs) >= 1
  /\ kN >= 2
  /\ Len(offered) > kN
  /\ evicted # <<>>
  /\ Len(outs[1]) = kN
  /\ \E i, j \in 1..Len(offered) : i < j /\ offered[i].Size > offered[j].Size
  /\ \E i, j \in 1..Len(offered) : i < j /\ offered[i].Size < offered[j].Size

\* the paths and Results in flight: queued on a channel or held by a worker
InFlight ==
  Len(paths) + Len(results) + Cardinality({w \in Workers : wpc[w] = "send"})

\* the traversal goroutine is blocked sending on the full candidate queue
ProducerBlocked ==
  /\ ppc = "walk"
  /\ todo # <<>>
  /\ Callback(Head(todo), cfg, rootDev) = "send"
  /\ ~(Head(todo) = Root /\ ~env.rootLstatOk)
  /\ Len(paths) = PathsCap

\* worker w is blocked sending on the full result queue
WorkerBlocked(w) ==
  wpc[w] = "send" /\ ~resultsClosed /\ Len(results) = ResultsCap

\* C21: backpressure bound: the candidate queue and the result queue never
\* hold more than their capacity; a sender facing a full queue is blocked
\* (its send is not enabled) instead of buffering, so the items in flight
\* never exceed the two capacities plus one per worker, whatever the size
\* of the tree.
C21_BackpressureBound ==
  /\ Len(paths) <= PathsCap
  /\ Len(results) <= ResultsCap
  /\ InFlight <= PathsCap + ResultsCap + cfg.Workers
  /\ ProducerBlocked => ~ENABLED Walk
  /\ \A w \in Workers : WorkerBlocked(w) => ~ENABLED WorkerSend(w)

\* both queues are full, the traversal is blocked with entries still to
\* visit and a worker is blocked holding a Result
C21_Witness ==
  /\ Len(paths) = PathsCap
  /\ Len(results) = ResultsCap
  /\ ProducerBlocked
  /\ Len(todo) >= 2
  /\ \E w \in Workers : WorkerBlocked(w)

====
